---- MODULE Spec2Model ----
(***************************************************************************)
(* Model of gerritbot-spark (gerritbot-spark/src/lib.rs): the messaging    *)
(* API client with its webhook registration routine, the webhook ingestion *)
(* server and the self-filter / hydration stage.                           *)
(*                                                                         *)
(* SpecClient : Client::register_webhook against a platform that answers   *)
(*              every request with an HTTP response or a transport error.  *)
(* SpecServer : start_raw_webhook_server / start_webhook_server.           *)
(***************************************************************************)
EXTENDS Integers, Sequences, FiniteSets, TLC

\* ------------------------------------------------------------------------
\* Bounds
\* ------------------------------------------------------------------------
\* number of webhooks the platform may hold before the first call
MaxInitial == 2
\* number of successive register_webhook calls
MaxCalls == 1
\* number of modifications of the platform's webhooks by another party
MaxInterference == 1

\* ------------------------------------------------------------------------
\* Data model
\* ------------------------------------------------------------------------
\* enum ResourceType (only the variants the platform state uses)
ResourceType == {"messages", "rooms"}

\* enum EventType (only the variants the platform state uses)
EventType == {"created", "deleted"}

\* target urls passed to register_webhook
Urls == {"u1", "u2"}

\* struct Webhook, reduced to the fields the client reads
Webhook(id, resource, event, target_url) ==
    [id |-> id, resource |-> resource, event |-> event, target_url |-> target_url]

\* enum Error: the variant and, for a reqwest error, the status it carries
\* (0 when it carries none)
Err(kind, status) == [ok |-> FALSE, kind |-> kind, status |-> status, value |-> <<>>]

\* Result::Ok
Ok(value) == [ok |-> TRUE, kind |-> "Ok", status |-> 0, value |-> value]

\* http::StatusCode::is_success
IsSuccess(status) == status >= 200 /\ status <= 299

\* ------------------------------------------------------------------------
\* What the platform sends back
\* ------------------------------------------------------------------------
\* a response that arrived: a status and a body (chunks of JSON tokens)
HttpResponse(status, chunks) ==
    [kind |-> "http", status |-> status, body |-> [chunks |-> chunks, error |-> FALSE]]

\* the request failed below HTTP (connection, TLS, timeout): no response
TransportFailure == [kind |-> "transport", status |-> 0,
                     body |-> [chunks |-> <<>>, error |-> TRUE]]

\* a JSON document carrying value v, sent as one chunk
JsonDoc(v) == << <<"{", v, "}">> >>

\* the body the platform sends with an error status
ErrorDoc == JsonDoc([message |-> "error"])

\* ------------------------------------------------------------------------
\* State
\* ------------------------------------------------------------------------
VARIABLES
    webhooks,     \* platform: the set of registered webhooks
    next_id,      \* platform: id given to the next webhook it creates
    reg_pc,       \* register_webhook: "idle", "list", "delete", "add", "ok", "err"
    reg_url,      \* register_webhook: the url argument of the current call
    reg_items,    \* register_webhook: listed webhooks not yet pulled from the stream
    reg_result,   \* register_webhook: the Result the future resolved to
    inflight,     \* requests sent to the platform and not yet answered
    reg_before,   \* history: the platform's webhooks when the current call began
    reg_listed,   \* history: ids of the matching webhooks the list request returned
    reg_log,      \* history: requests the current call has issued, in order
    del_failed,   \* history: a delete of the current call was answered with a failure
    interfered,   \* history: another party changed the webhooks during the current call
    ncalls,       \* history: number of register_webhook calls so far
    ninterf,      \* history: number of modifications by another party
    last_call,    \* history: the most recently completed request helper call
    nreq,         \* server: number of HTTP requests the listener has handled
    last_req,     \* history: the request handled last
    replies,      \* server: the response given to each request
    task,         \* server: the spawned decode-and-forward task of each request
    queue,        \* channel: envelopes sent and not yet received
    parked,       \* channel: senders parked until the receiver makes room
    rx_open,      \* channel: the receiving end has not been dropped
    hyd,          \* hydration stage: idle, or fetching the message of an envelope
    stream_state, \* hydrated-message stream: "open", "error" or "dropped"
    received,     \* history: envelopes the stream has taken from the channel
    fetch_log,    \* history: get_message calls completed, with their outcome
    emitted,      \* history: ids of the hydrated messages emitted, in order
    src_ready,    \* main: what each source of the merge has ready
    flag,         \* main: the flag of select, which stream is polled first
    bot,          \* main: the bot state owned by the fold
    loop_state,   \* main: "running", "terminated" (error) or "finished"
    saves,        \* main: the persistence tasks spawned, with their snapshot
    disk,         \* main: the state last written to state.json
    reply_log,    \* history: the reply calls made, in order
    merged_log,   \* history: the items the merge has emitted, in order
    update_log,   \* history: the update calls made, with input, output and effects
    bypassed,     \* history: the source that had an item ready when the last
                  \*          item was taken from the other one
    nsupplied,    \* history: number of items the sources have produced
    init_bot,     \* history: the bot state the loop started with
    me,           \* platform: the person id the bot token belongs to
    new_pc,       \* Client::new: "idle", "lookup", "ok", "err"
    bootstrap_client, \* Client::new: the client built before the lookup
    lookup,       \* Client::new: the Result of get_bot_id
    clients,      \* the Client values the callers hold (the result and clones)
    op_log,       \* history: operations made on clients and the id they saw
    nops          \* history: number of operations made on clients

clientVars == <<webhooks, next_id, reg_pc, reg_url, reg_items, reg_result, inflight,
                reg_before, reg_listed, reg_log, del_failed, interfered, ncalls,
                ninterf, last_call>>

serverVars == <<nreq, last_req, replies, task, queue, parked, rx_open, hyd, stream_state,
                received, fetch_log, emitted>>

mainVars == <<src_ready, flag, bot, loop_state, saves, disk, reply_log, merged_log,
              update_log, bypassed, nsupplied, init_bot>>

bootVars == <<me, new_pc, bootstrap_client, lookup, clients, op_log, nops>>

vars == <<clientVars, serverVars, mainVars, bootVars>>

\* ------------------------------------------------------------------------
\* Pure helpers of the client
\* ------------------------------------------------------------------------
\* body.fold(Vec::new(), extend_from_slice): the chunks, concatenated
RECURSIVE Concat(_)
Concat(chunks) ==
    IF chunks = <<>> THEN <<>> ELSE Head(chunks) \o Concat(Tail(chunks))

\* serde_json::from_slice::<T>: a complete document whose value has the
\* fields T requires
from_slice(bytes, required) ==
    IF Len(bytes) = 3 /\ bytes[1] = "{" /\ bytes[3] = "}" /\ required \subseteq DOMAIN bytes[2]
    THEN Ok(bytes[2])
    ELSE Err("JsonError", 0)

\* decode_json_body: accumulate the body, then decode; an error of the
\* body stream is converted with From<E>
decode_json_body(body, required, stream_error) ==
    IF body.error
    THEN Err(stream_error, 0)
    ELSE from_slice(Concat(body.chunks), required)

\* Client::api_get_json: send().from_err().and_then(decode_json_body)
api_get_json(resp, required) ==
    IF resp.kind = "transport"
    THEN Err("ReqwestError", 0)
    ELSE decode_json_body(resp.body, required, "ReqwestError")

\* Client::api_post_json: send().from_err().map(|_| ())
api_post_json(resp) ==
    IF resp.kind = "transport" THEN Err("ReqwestError", 0) ELSE Ok(<<>>)

\* Client::api_delete: send().from_err().map(|_| ())
api_delete(resp) ==
    IF resp.kind = "transport" THEN Err("ReqwestError", 0) ELSE Ok(<<>>)

\* Client::list_webhooks
list_webhooks(resp) == api_get_json(resp, {"items"})

\* Client::add_webhook
add_webhook(resp) == api_post_json(resp)

\* Client::delete_webhook: or_else on the error of api_delete
delete_webhook(resp) ==
    LET e == api_delete(resp) IN
    IF e.ok THEN e
    ELSE IF e.kind = "ReqwestError" /\ (e.status = 204 \/ e.status = 404)
         THEN Ok(<<>>)
         ELSE Err("DeleteWebhook", 0)

\* the filter with the resource compared and the event ignored
IsMessagesAnyEvent(webhook) == webhook.resource = "messages"

\* the filter closure of register_webhook
IsMessagesCreated(webhook) ==
    webhook.resource = "messages" /\ webhook.event = "created"

\* Stream::filter: items are skipped until one passes the filter
RECURSIVE SkipFiltered(_)
SkipFiltered(items) ==
    IF items = <<>> THEN <<>>
    ELSE IF IsMessagesCreated(Head(items)) THEN items
    ELSE SkipFiltered(Tail(items))

\* the webhooks of a set that the filter lets through
Matching(ws) == {w \in ws : IsMessagesCreated(w)}

\* the platform lists its webhooks ordered by id
RECURSIVE ItemsOf(_)
ItemsOf(ws) ==
    IF ws = {} THEN <<>>
    ELSE LET w == CHOOSE x \in ws : \A y \in ws : x.id <= y.id
         IN <<w>> \o ItemsOf(ws \ {w})

Request(op, id) == [op |-> op, id |-> id]

NoCall == [op |-> "none", id |-> 0, kind |-> "none", status |-> 0,
           result |-> Ok(<<>>), outcome |-> Ok(<<>>)]

\* record of a completed helper call: the helper, what the platform sent,
\* the helper's result and the result of the operation built on it
Completed(op, id, resp, result, outcome) ==
    [op |-> op, id |-> id, kind |-> resp.kind,
     status |-> resp.status, result |-> [result EXCEPT !.value = <<>>],
     outcome |-> [outcome EXCEPT !.value = <<>>]]

\* ------------------------------------------------------------------------
\* Client::register_webhook
\* ------------------------------------------------------------------------
\* the platform state before the first call: any set of at most MaxInitial
\* webhooks, of any resource and event
InitialWebhooks ==
    LET Absent == [id |-> 0]
        Choice(i) == {Absent} \cup
                     {Webhook(i, r, e, "old") : r \in ResourceType, e \in EventType}
        Picks == {f \in [1..MaxInitial -> UNION {Choice(i) : i \in 1..MaxInitial}] :
                    \A i \in 1..MaxInitial : f[i] \in Choice(i)}
    IN {{f[i] : i \in {j \in 1..MaxInitial : f[j].id # 0}} : f \in Picks}

InitClient ==
    /\ webhooks \in InitialWebhooks
    /\ next_id = MaxInitial + 1
    /\ reg_pc = "idle"
    /\ reg_url = "none"
    /\ reg_items = <<>>
    /\ reg_result = Ok(<<>>)
    /\ inflight = {}
    /\ reg_before = {}
    /\ reg_listed = {}
    /\ reg_log = <<>>
    /\ del_failed = FALSE
    /\ interfered = FALSE
    /\ ncalls = 0
    /\ ninterf = 0
    /\ last_call = NoCall

\* no register_webhook call is made
ClientIdle ==
    /\ InitClient
    /\ webhooks = {}
\* register_webhook(url) is called: the list request goes out
RegisterWebhook(url) ==
    /\ reg_pc \in {"idle", "ok", "err"}
    /\ ncalls < MaxCalls
    /\ ncalls' = ncalls + 1
    /\ reg_pc' = "list"
    /\ reg_url' = url
    /\ reg_items' = <<>>
    /\ reg_result' = Ok(<<>>)
    /\ inflight' = inflight \cup {Request("list", 0)}
    /\ reg_before' = webhooks
    /\ reg_listed' = {}
    /\ reg_log' = <<Request("list", 0)>>
    /\ del_failed' = FALSE
    /\ interfered' = FALSE
    /\ UNCHANGED <<webhooks, next_id, ninterf, last_call>>

\* Proceed with the add chained to the issue of the last delete instead of
\* to its completion
ProceedWithoutWaiting(items, answered) ==
    LET rest == SkipFiltered(items) IN
    IF rest = <<>>
    THEN /\ reg_pc' = "add"
         /\ reg_items' = <<>>
         /\ inflight' = (inflight \ {answered}) \cup {Request("add", 0)}
         /\ reg_log' = Append(reg_log, Request("add", 0))
    ELSE IF SkipFiltered(Tail(rest)) = <<>>
    THEN /\ reg_pc' = "add"
         /\ reg_items' = <<>>
         /\ inflight' = (inflight \ {answered})
                           \cup {Request("delete", Head(rest).id), Request("add", 0)}
         /\ reg_log' = reg_log \o <<Request("delete", Head(rest).id), Request("add", 0)>>
    ELSE /\ reg_pc' = "delete"
         /\ reg_items' = Tail(rest)
         /\ inflight' = (inflight \ {answered}) \cup {Request("delete", Head(rest).id)}
         /\ reg_log' = Append(reg_log, Request("delete", Head(rest).id))

\* for_each over the filtered stream, then and_then: after a step has
\* resolved with Ok, the next matching webhook is pulled and its delete is
\* issued; when the stream is exhausted the add is issued
Proceed(items, answered) ==
    LET rest == SkipFiltered(items) IN
    IF rest = <<>>
    THEN /\ reg_pc' = "add"
         /\ reg_items' = <<>>
         /\ inflight' = (inflight \ {answered}) \cup {Request("add", 0)}
         /\ reg_log' = Append(reg_log, Request("add", 0))
    ELSE /\ reg_pc' = "delete"
         /\ reg_items' = Tail(rest)
         /\ inflight' = (inflight \ {answered}) \cup {Request("delete", Head(rest).id)}
         /\ reg_log' = Append(reg_log, Request("delete", Head(rest).id))

\* an Err of any step resolves the whole future with that error
Abort(answered) ==
    /\ reg_pc' = "err"
    /\ reg_items' = <<>>
    /\ inflight' = inflight \ {answered}
    /\ reg_log' = reg_log

\* what the platform may answer to GET webhooks
ListAnswers ==
    { HttpResponse(200, JsonDoc([items |-> ItemsOf(webhooks)])),
      HttpResponse(200, << <<"{">>, <<[items |-> ItemsOf(webhooks)], "}">> >>),
      HttpResponse(200, << <<"{", [items |-> ItemsOf(webhooks)]>> >>),
      HttpResponse(500, ErrorDoc),
      TransportFailure }

\* the list request is answered
ListRespond(resp) ==
    /\ reg_pc = "list"
    /\ Request("list", 0) \in inflight
    /\ LET r == list_webhooks(resp) IN
         /\ last_call' = Completed("get_json", 0, resp, r, r)
         /\ reg_result' = [r EXCEPT !.value = <<>>]
         /\ IF r.ok
            THEN /\ Proceed(r.value.items, Request("list", 0))
                 /\ reg_listed' = {w.id : w \in Matching({r.value.items[i] :
                                                     i \in 1..Len(r.value.items)})}
            ELSE /\ Abort(Request("list", 0))
                 /\ reg_listed' = {}
    /\ UNCHANGED <<webhooks, next_id, reg_url, reg_before, del_failed, interfered,
                   ncalls, ninterf>>

\* statuses the platform may answer to DELETE webhooks/{id}, and whether
\* the webhook is removed
DeleteAnswers(id) ==
    IF \E w \in webhooks : w.id = id
    THEN { <<HttpResponse(204, <<>>), TRUE>>,
           <<HttpResponse(500, ErrorDoc), FALSE>>,
           <<TransportFailure, TRUE>>,
           <<TransportFailure, FALSE>> }
    ELSE { <<HttpResponse(404, ErrorDoc), FALSE>>,
           <<HttpResponse(204, <<>>), FALSE>>,
           <<HttpResponse(500, ErrorDoc), FALSE>>,
           <<TransportFailure, FALSE>> }

\* a delete is answered with something other than success or already-gone
IsDeleteFailure(resp) ==
    \/ resp.kind = "transport"
    \/ resp.kind = "http" /\ ~IsSuccess(resp.status) /\ resp.status # 404

\* the delete request of webhook id is answered
DeleteRespond(id, answer) ==
    /\ reg_pc = "delete"
    /\ Request("delete", id) \in inflight
    /\ answer \in DeleteAnswers(id)
    /\ webhooks' = IF answer[2] THEN {w \in webhooks : w.id # id} ELSE webhooks
    /\ LET resp == answer[1]
           r == delete_webhook(resp)
       IN /\ last_call' = Completed("delete", id, resp, api_delete(resp), r)
          /\ reg_result' = r
          /\ del_failed' = (del_failed \/ IsDeleteFailure(resp))
          /\ IF r.ok THEN Proceed(reg_items, Request("delete", id))
                     ELSE Abort(Request("delete", id))
    /\ UNCHANGED <<next_id, reg_url, reg_before, reg_listed, interfered, ncalls, ninterf>>

\* what the platform may answer to POST webhooks, and whether the webhook
\* is created
AddAnswers ==
    { <<HttpResponse(200, JsonDoc([id |-> next_id])), TRUE>>,
      <<HttpResponse(500, ErrorDoc), FALSE>>,
      <<TransportFailure, TRUE>>,
      <<TransportFailure, FALSE>> }

\* the add request is answered
AddRespond(answer) ==
    /\ reg_pc = "add"
    /\ Request("add", 0) \in inflight
    /\ answer \in AddAnswers
    /\ IF answer[2]
       THEN /\ webhooks' = webhooks \cup {Webhook(next_id, "messages", "created", reg_url)}
            /\ next_id' = next_id + 1
       ELSE UNCHANGED <<webhooks, next_id>>
    /\ LET resp == answer[1]
           r == add_webhook(resp)
       IN /\ last_call' = Completed("post_json", 0, resp, api_post_json(resp), r)
          /\ reg_result' = r
          /\ reg_pc' = IF r.ok THEN "ok" ELSE "err"
          /\ inflight' = inflight \ {Request("add", 0)}
    /\ UNCHANGED <<reg_url, reg_items, reg_before, reg_listed, reg_log, del_failed,
                   interfered, ncalls, ninterf>>

\* another party deletes a webhook on the platform
OtherPartyDeletes(id) ==
    /\ ninterf < MaxInterference
    /\ \E w \in webhooks : w.id = id
    /\ webhooks' = {w \in webhooks : w.id # id}
    /\ ninterf' = ninterf + 1
    /\ interfered' = TRUE
    /\ UNCHANGED <<next_id, reg_pc, reg_url, reg_items, reg_result, inflight, reg_before,
                   reg_listed, reg_log, del_failed, ncalls, last_call>>

NextClient ==
    \/ \E url \in Urls : RegisterWebhook(url)
    \/ \E resp \in ListAnswers : ListRespond(resp)
    \/ \E id \in 1..(MaxInitial + MaxCalls) : \E answer \in DeleteAnswers(id) :
          DeleteRespond(id, answer)
    \/ \E answer \in AddAnswers : AddRespond(answer)
    \/ \E id \in 1..(MaxInitial + MaxCalls) : OtherPartyDeletes(id)

\* ------------------------------------------------------------------------
\* Webhook ingestion server: start_raw_webhook_server
\* ------------------------------------------------------------------------
\* number of HTTP requests the listener receives
MaxRequests == 3

\* channel(1): the buffer size of the channel
Buffer == 1

\* sender ids found in envelopes; "bot" is the bot's own PersonId
PersonIds == {"bot", "alice"}

\* client.id(): the id resolved by Client::new
own_id == "bot"

\* b"application/json"
ApplicationJson ==
    <<"a", "p", "p", "l", "i", "c", "a", "t", "i", "o", "n", "/", "j", "s", "o", "n">>

\* slice::starts_with
starts_with(v, prefix) ==
    Len(v) >= Len(prefix) /\ SubSeq(v, 1, Len(prefix)) = prefix

\* Content-Type headers of incoming requests: absent, application/json,
\* application/json with a parameter, a proper prefix of it, text
ContentTypes ==
    { [present |-> FALSE, value |-> <<>>],
      [present |-> TRUE, value |-> ApplicationJson],
      [present |-> TRUE, value |-> ApplicationJson \o <<";", "c">>],
      [present |-> TRUE, value |-> SubSeq(ApplicationJson, 1, 15)],
      [present |-> TRUE, value |-> <<"t", "e", "x", "t">>] }

\* request targets: the root, another path, the root with a query
Uris == { [path |-> "/", query |-> ""],
          [path |-> "/hook", query |-> ""],
          [path |-> "/", query |-> "x"] }

Methods == {"POST", "GET"}

\* hyper::Request, reduced to what reject_webhook_request reads
Requests == [uri : Uris, method : Methods, content_type : ContentTypes]

\* impl PartialEq<str> for Uri: the whole target, path and query, is
\* compared with the literal
uri_eq(uri, literal) == uri.path = literal /\ uri.query = ""

\* reject_webhook_request with the method checked before the target
reject_method_first(request) ==
    IF request.method # "POST" THEN 405
    ELSE IF ~uri_eq(request.uri, "/") THEN 404
    ELSE IF ~(IF request.content_type.present
              THEN starts_with(request.content_type.value, ApplicationJson)
              ELSE FALSE)
    THEN 415
    ELSE 0

\* reject_webhook_request: the status of the error response, 0 for None
reject_webhook_request(request) ==
    IF ~uri_eq(request.uri, "/") THEN 404
    ELSE IF request.method # "POST" THEN 405
    ELSE IF ~(IF request.content_type.present
              THEN starts_with(request.content_type.value, ApplicationJson)
              ELSE FALSE)
    THEN 415
    ELSE 0

\* struct WebhookMessage as JSON value: the envelope of message id sent by person
Envelope(id, person) ==
    [id |-> "webhook", data |-> [id |-> id, personId |-> person]]

\* request bodies of the r-th request: an envelope in one chunk or in two,
\* a truncated document, a document of another schema, a failing body stream
Bodies(r) ==
    {[chunks |-> JsonDoc(Envelope(r, person)), error |-> FALSE] : person \in PersonIds}
    \cup { [chunks |-> << <<"{">>, <<Envelope(r, "alice"), "}">> >>, error |-> FALSE],
           [chunks |-> << <<"{", Envelope(r, "alice")>> >>, error |-> FALSE],
           [chunks |-> ErrorDoc, error |-> FALSE],
           [chunks |-> <<>>, error |-> TRUE] }

NoBody == [chunks |-> <<>>, error |-> FALSE]

\* the body is read (request.into_body()) only of a request that is not
\* rejected
BodiesRead(request, r) ==
    IF reject_webhook_request(request) # 0 THEN {NoBody} ELSE Bodies(r)

\* hyper::Response with an empty body
Response(status) == [status |-> status, body |-> <<>>]

NoResponse == [status |-> 0, body |-> <<"pending">>]

NoRequest == [uri |-> [path |-> "", query |-> ""], method |-> "",
              content_type |-> [present |-> FALSE, value |-> <<>>]]

Idle == [pc |-> "idle", id |-> 0, personId |-> ""]

InitServer ==
    /\ nreq = 0
    /\ last_req = NoRequest
    /\ replies = [r \in 1..MaxRequests |-> NoResponse]
    /\ task = [r \in 1..MaxRequests |-> [pc |-> "none", body |-> NoBody]]
    /\ queue = <<>>
    /\ parked = <<>>
    /\ rx_open = TRUE
    /\ hyd = Idle
    /\ stream_state = "open"
    /\ received = <<>>
    /\ fetch_log = <<>>
    /\ emitted = <<>>

\* the service function with the response produced by the spawned task
\* when it finishes instead of by the service function
HandleRequestAwaitingTask(request, body) ==
    /\ nreq < MaxRequests
    /\ nreq' = nreq + 1
    /\ last_req' = request
    /\ LET r == nreq + 1
           rejected == reject_webhook_request(request)
       IN IF rejected # 0
          THEN /\ replies' = [replies EXCEPT ![r] = Response(rejected)]
               /\ task' = task
          ELSE /\ task' = [task EXCEPT ![r] = [pc |-> "decode", body |-> body]]
               /\ replies' = replies
    /\ UNCHANGED <<queue, parked, rx_open, hyd, stream_state, received, fetch_log, emitted>>
    /\ UNCHANGED clientVars

\* service_fn_ok closure: reject the request, or spawn the decode-and-forward
\* task and answer with an empty 200
HandleRequest(request, body) ==
    /\ nreq < MaxRequests
    /\ nreq' = nreq + 1
    /\ last_req' = request
    /\ LET r == nreq + 1
           rejected == reject_webhook_request(request)
       IN IF rejected # 0
          THEN /\ replies' = [replies EXCEPT ![r] = Response(rejected)]
               /\ task' = task
          ELSE /\ task' = [task EXCEPT ![r] = [pc |-> "decode", body |-> body]]
               /\ replies' = [replies EXCEPT ![r] = Response(200)]
    /\ UNCHANGED <<queue, parked, rx_open, hyd, stream_state, received, fetch_log, emitted>>
    /\ UNCHANGED clientVars

\* the spawned task with a decode error closing the channel
TaskDecodeClosingOnError(r) ==
    /\ task[r].pc = "decode"
    /\ LET d == decode_json_body(task[r].body, {"id", "data"}, "HyperError") IN
         IF ~d.ok
         THEN /\ task' = [task EXCEPT ![r] = [pc |-> "decode_err", body |-> NoBody]]
              /\ rx_open' = FALSE
              /\ UNCHANGED <<queue, parked>>
         ELSE IF ~rx_open
         THEN /\ task' = [task EXCEPT ![r] = [pc |-> "send_err", body |-> NoBody]]
              /\ UNCHANGED <<queue, parked, rx_open>>
         ELSE /\ queue' = Append(queue, d.value)
              /\ rx_open' = rx_open
              /\ IF Len(queue) + 1 > Buffer
                 THEN /\ parked' = Append(parked, r)
                      /\ task' = [task EXCEPT ![r] = [pc |-> "parked", body |-> NoBody]]
                 ELSE /\ parked' = parked
                      /\ task' = [task EXCEPT ![r] = [pc |-> "done", body |-> NoBody]]
    /\ UNCHANGED <<nreq, last_req, replies, hyd, stream_state, received, fetch_log, emitted>>
    /\ UNCHANGED clientVars

\* the spawned task with a sender that is never parked: the envelope is
\* queued and the send completes at once, however long the queue is
TaskDecodeNeverParking(r) ==
    /\ task[r].pc = "decode"
    /\ LET d == decode_json_body(task[r].body, {"id", "data"}, "HyperError") IN
         IF ~d.ok
         THEN /\ task' = [task EXCEPT ![r] = [pc |-> "decode_err", body |-> NoBody]]
              /\ UNCHANGED <<queue, parked>>
         ELSE IF ~rx_open
         THEN /\ task' = [task EXCEPT ![r] = [pc |-> "send_err", body |-> NoBody]]
              /\ UNCHANGED <<queue, parked>>
         ELSE /\ queue' = Append(queue, d.value)
              /\ parked' = parked
              /\ task' = [task EXCEPT ![r] = [pc |-> "done", body |-> NoBody]]
    /\ UNCHANGED <<nreq, last_req, replies, rx_open, hyd, stream_state, received, fetch_log,
                   emitted>>
    /\ UNCHANGED clientVars

\* the spawned task with a send that gives up when the buffer is full: the
\* envelope is discarded and the task ends
TaskDecodeDroppingWhenFull(r) ==
    /\ task[r].pc = "decode"
    /\ LET d == decode_json_body(task[r].body, {"id", "data"}, "HyperError") IN
         IF ~d.ok
         THEN /\ task' = [task EXCEPT ![r] = [pc |-> "decode_err", body |-> NoBody]]
              /\ UNCHANGED <<queue, parked>>
         ELSE IF ~rx_open
         THEN /\ task' = [task EXCEPT ![r] = [pc |-> "send_err", body |-> NoBody]]
              /\ UNCHANGED <<queue, parked>>
         ELSE /\ queue' = IF Len(queue) + 1 > Buffer THEN queue ELSE Append(queue, d.value)
              /\ parked' = parked
              /\ task' = [task EXCEPT ![r] = [pc |-> "done", body |-> NoBody]]
    /\ UNCHANGED <<nreq, last_req, replies, rx_open, hyd, stream_state, received, fetch_log,
                   emitted>>
    /\ UNCHANGED clientVars

\* the spawned task f: decode the body; on success send the envelope into
\* the channel through this request's clone of the sender. The message is
\* queued; the sender is parked when the queue then exceeds the buffer
TaskDecode(r) ==
    /\ task[r].pc = "decode"
    /\ LET d == decode_json_body(task[r].body, {"id", "data"}, "HyperError") IN
         IF ~d.ok
         THEN /\ task' = [task EXCEPT ![r] = [pc |-> "decode_err", body |-> NoBody]]
              /\ UNCHANGED <<queue, parked>>
         ELSE IF ~rx_open
         THEN /\ task' = [task EXCEPT ![r] = [pc |-> "send_err", body |-> NoBody]]
              /\ UNCHANGED <<queue, parked>>
         ELSE /\ queue' = Append(queue, d.value)
              /\ IF Len(queue) + 1 > Buffer
                 THEN /\ parked' = Append(parked, r)
                      /\ task' = [task EXCEPT ![r] = [pc |-> "parked", body |-> NoBody]]
                 ELSE /\ parked' = parked
                      /\ task' = [task EXCEPT ![r] = [pc |-> "done", body |-> NoBody]]
    /\ UNCHANGED <<nreq, last_req, replies, rx_open, hyd, stream_state, received, fetch_log,
                   emitted>>
    /\ UNCHANGED clientVars

\* a parked sender has been woken by the receiver: the send completes
TaskUnparked(r) ==
    /\ task[r].pc = "parked"
    /\ \A i \in 1..Len(parked) : parked[i] # r
    /\ task' = [task EXCEPT ![r] = [pc |-> "done", body |-> NoBody]]
    /\ UNCHANGED <<nreq, last_req, replies, queue, parked, rx_open, hyd, stream_state,
                   received, fetch_log, emitted>>
    /\ UNCHANGED clientVars

\* ------------------------------------------------------------------------
\* Self-filter and hydration: start_webhook_server
\* ------------------------------------------------------------------------
\* the filter without the comparison
filter_nothing(post) == TRUE

\* filter closure: ignore own messages
filter_own(post) == post.data.personId # own_id

\* the then closure with the error of the fetch passed on
hydrate_or_fail(message_result) ==
    IF message_result.ok THEN Ok(<<message_result.value>>) ELSE message_result

\* then closure of and_then: Ok(Some(message)) or, for a failed fetch,
\* Ok(None); the Option is a sequence of length at most one
hydrate(message_result) ==
    IF message_result.ok THEN Ok(<<message_result.value>>) ELSE Ok(<<>>)

\* Client::get_message
get_message(response) == api_get_json(response, {"id", "personId"})

\* struct Message as JSON value, hydrated
Message(id, person) == [id |-> id, personId |-> person, text |-> "text"]

\* what the platform may answer to GET messages/{id}
MessageAnswers(id, person) ==
    { HttpResponse(200, JsonDoc(Message(id, person))),
      HttpResponse(200, << <<"{", Message(id, person)>>, <<"}">> >>),
      HttpResponse(404, ErrorDoc),
      TransportFailure }

\* the stream polled for the next envelope while a fetch is pending
ReceiveEnvelopeWhileFetching ==
    /\ stream_state = "open"
    /\ queue # <<>>
    /\ LET post == Head(queue) IN
         /\ queue' = Tail(queue)
         /\ parked' = IF parked = <<>> THEN parked ELSE Tail(parked)
         /\ received' = Append(received, post.data)
         /\ hyd' = IF filter_own(post)
                   THEN [pc |-> "fetch", id |-> post.data.id, personId |-> post.data.personId]
                   ELSE hyd
    /\ UNCHANGED <<nreq, last_req, replies, task, rx_open, stream_state, fetch_log, emitted>>
    /\ UNCHANGED clientVars

\* the stream is polled with an envelope in the channel: it is received
\* (waking one parked sender), filtered and, unless dropped by the filter,
\* its get_message request is issued
ReceiveEnvelope ==
    /\ stream_state = "open"
    /\ hyd.pc = "idle"
    /\ queue # <<>>
    /\ LET post == Head(queue) IN
         /\ queue' = Tail(queue)
         /\ parked' = IF parked = <<>> THEN parked ELSE Tail(parked)
         /\ received' = Append(received, post.data)
         /\ hyd' = IF filter_own(post)
                   THEN [pc |-> "fetch", id |-> post.data.id, personId |-> post.data.personId]
                   ELSE Idle
    /\ UNCHANGED <<nreq, last_req, replies, task, rx_open, stream_state, fetch_log, emitted>>
    /\ UNCHANGED clientVars

\* the get_message request is answered: the message is emitted, or dropped
GetMessageRespond(response) ==
    /\ stream_state = "open"
    /\ hyd.pc = "fetch"
    /\ LET message_result == get_message(response)
           item == hydrate(message_result)
       IN /\ fetch_log' = Append(fetch_log, [id |-> hyd.id, ok |-> message_result.ok])
          /\ stream_state' = IF item.ok THEN "open" ELSE "error"
          /\ emitted' = IF item.ok /\ Len(item.value) = 1
                        THEN Append(emitted, item.value[1].id)
                        ELSE emitted
    /\ hyd' = Idle
    /\ UNCHANGED <<nreq, last_req, replies, task, queue, parked, rx_open, received>>
    /\ UNCHANGED clientVars

\* the consumer drops the messages stream: the receiver closes the channel,
\* its queue is discarded and every parked sender is woken
DropMessages ==
    /\ stream_state = "open"
    /\ stream_state' = "dropped"
    /\ rx_open' = FALSE
    /\ queue' = <<>>
    /\ parked' = <<>>
    /\ hyd' = Idle
    /\ UNCHANGED <<nreq, last_req, replies, task, received, fetch_log, emitted>>
    /\ UNCHANGED clientVars

NextServer ==
    \/ \E request \in Requests : \E body \in BodiesRead(request, nreq + 1) :
          HandleRequest(request, body)
    \/ \E r \in 1..MaxRequests : TaskDecode(r)
    \/ \E r \in 1..MaxRequests : TaskUnparked(r)
    \/ ReceiveEnvelope
    \/ \E response \in MessageAnswers(hyd.id, hyd.personId) : GetMessageRespond(response)
    \/ DropMessages

\* ------------------------------------------------------------------------
\* Specifications
\* ------------------------------------------------------------------------
\* ------------------------------------------------------------------------
\* Client bootstrap: Client::new
\* ------------------------------------------------------------------------
\* number of operations made on the clients
MaxOps == 3

\* the fields of PersonDetails without a default
PersonDetailsFields == {"id", "emails", "displayName", "orgId", "created"}

\* struct PersonDetails as JSON value
PersonDetails(person) ==
    [id |-> person, emails |-> <<"e">>, displayName |-> "n", orgId |-> "o",
     created |-> "t"]

\* what the platform may answer to GET people/me
MeAnswers(person) ==
    { HttpResponse(200, JsonDoc(PersonDetails(person))),
      HttpResponse(200, << <<"{">>, <<PersonDetails(person), "}">> >>),
      HttpResponse(200, << <<"{", PersonDetails(person)>> >>),
      HttpResponse(401, ErrorDoc),
      TransportFailure }

\* PersonId(String::new())
EmptyId == ""

NoClient == [url |-> "", bot_token |-> "", bot_id |-> EmptyId]

NoLookup == [ok |-> FALSE, kind |-> "none", status |-> 0, value |-> <<>>]

\* Client::get_bot_id: api_get_json("people/me").map(|details| details.id)
get_bot_id(response) ==
    LET details == api_get_json(response, PersonDetailsFields)
    IN IF details.ok THEN Ok(details.value.id) ELSE details

\* Client::id
Client_id(c) == c.bot_id

\* operations taking &self that send a request
ClientOps == {"reply", "get_message", "register_webhook"}

InitBoot ==
    /\ me \in PersonIds
    /\ new_pc = "idle"
    /\ bootstrap_client = NoClient
    /\ lookup = NoLookup
    /\ clients = <<>>
    /\ op_log = <<>>
    /\ nops = 0

\* Client::new is not called
BootIdle ==
    /\ InitBoot
    /\ me = own_id

\* Client::new is called: the bootstrap client is built with an empty id
\* and the self-lookup is sent
ClientNew ==
    /\ new_pc = "idle"
    /\ new_pc' = "lookup"
    /\ bootstrap_client' = [url |-> "api", bot_token |-> "token", bot_id |-> EmptyId]
    /\ UNCHANGED <<me, lookup, clients, op_log, nops>>

\* Client::new resolving to the bootstrap client whatever the lookup gave
NewRespondKeepingPlaceholder(response) ==
    /\ new_pc = "lookup"
    /\ response \in MeAnswers(me)
    /\ lookup' = get_bot_id(response)
    /\ new_pc' = "ok"
    /\ clients' = <<bootstrap_client>>
    /\ UNCHANGED <<me, bootstrap_client, op_log, nops>>

\* the self-lookup is answered: map builds the Client with the id found,
\* an error resolves Client::new to that error
NewRespond(response) ==
    /\ new_pc = "lookup"
    /\ response \in MeAnswers(me)
    /\ lookup' = get_bot_id(response)
    /\ IF lookup'.ok
       THEN /\ new_pc' = "ok"
            /\ clients' = <<[bootstrap_client EXCEPT !.bot_id = lookup'.value]>>
       ELSE /\ new_pc' = "err"
            /\ clients' = <<>>
    /\ UNCHANGED <<me, bootstrap_client, op_log, nops>>

\* #[derive(Clone)]: a caller clones a client it holds
CloneClient(i) ==
    /\ i \in 1..Len(clients)
    /\ nops < MaxOps
    /\ nops' = nops + 1
    /\ clients' = Append(clients, clients[i])
    /\ op_log' = Append(op_log, [client |-> i, op |-> "clone", bot_id |-> Client_id(clients[i])])
    /\ UNCHANGED <<me, new_pc, bootstrap_client, lookup>>

\* a caller reads client.id()
ReadId(i) ==
    /\ i \in 1..Len(clients)
    /\ nops < MaxOps
    /\ nops' = nops + 1
    /\ op_log' = Append(op_log, [client |-> i, op |-> "id", bot_id |-> Client_id(clients[i])])
    /\ UNCHANGED <<me, new_pc, bootstrap_client, lookup, clients>>

\* a caller calls reply, get_message or register_webhook on a client
ClientCall(i, op) ==
    /\ i \in 1..Len(clients)
    /\ nops < MaxOps
    /\ nops' = nops + 1
    /\ op_log' = Append(op_log, [client |-> i, op |-> op, bot_id |-> Client_id(clients[i])])
    /\ UNCHANGED <<me, new_pc, bootstrap_client, lookup, clients>>

NextBoot ==
    \/ ClientNew
    \/ \E response \in MeAnswers(me) : NewRespond(response)
    \/ \E i \in 1..(MaxOps + 1) : CloneClient(i)
    \/ \E i \in 1..(MaxOps + 1) : ReadId(i)
    \/ \E i \in 1..(MaxOps + 1) : \E op \in ClientOps : ClientCall(i, op)

\* ------------------------------------------------------------------------
\* Unified action loop: main
\* ------------------------------------------------------------------------
\* number of items (actions, errors, ends) the two sources produce in total
MaxActions == 3

\* spark_stream (stream1 of select) and gerrit_stream (stream2)
Sources == {"spark", "gerrit"}

Other(s) == IF s = "spark" THEN "gerrit" ELSE "spark"

\* bot::Action: NoOp, and actions for which update returns no task, a
\* Reply or a ReplyAndSave
ActionKinds == {"NoOp", "silent", "reply", "save"}

\* bot::Bot::new()
BotNew == 0

\* a bot state read from state.json by bot::Bot::load
BotLoaded == 3

\* what state.json holds when it cannot be loaded
NoFile == -1

NoTask == [kind |-> "None", response |-> [person_id |-> "", message |-> 0]]

\* bot::update(action, bot) -> (bot, Option<Task>): a pure function of the
\* action and the state; the new state depends on the old one and on the
\* action, the response on the new state
update(action, state) ==
    LET next == (2 * state + (CASE action = "silent" -> 1
                                [] action = "reply" -> 2
                                [] action = "save" -> 3
                                [] OTHER -> 4)) % 5
        response == [person_id |-> "alice", message |-> next]
    IN [bot |-> next,
        task |-> CASE action = "reply" -> [kind |-> "Reply", response |-> response]
                   [] action = "save" -> [kind |-> "ReplyAndSave", response |-> response]
                   [] OTHER -> NoTask]

\* select with stream1 always polled first
select_first_stream_first(flg, ready) ==
    IF ready["spark"] = "error" THEN [out |-> "error", src |-> "spark", flag |-> ~flg]
    ELSE IF ready["spark"] \in ActionKinds THEN [out |-> "item", src |-> "spark", flag |-> ~flg]
    ELSE IF ready["gerrit"] = "error" THEN [out |-> "error", src |-> "gerrit", flag |-> ~flg]
    ELSE IF ready["gerrit"] \in ActionKinds
         THEN [out |-> "item", src |-> "gerrit", flag |-> ~flg]
    ELSE IF ready["gerrit"] = "ended" /\ ready["spark"] = "ended"
         THEN [out |-> "end", src |-> "gerrit", flag |-> ~flg]
    ELSE [out |-> "notready", src |-> "gerrit", flag |-> ~flg]

\* Stream::select, one poll: the stream the flag names is polled first and
\* the flag is toggled; an item of the second stream toggles it back unless
\* the first stream has ended
select(flg, ready) ==
    LET a == IF flg THEN "gerrit" ELSE "spark"
        b == Other(a)
        a_done == ready[a] = "ended"
    IN IF ready[a] = "error" THEN [out |-> "error", src |-> a, flag |-> ~flg]
       ELSE IF ready[a] \in ActionKinds THEN [out |-> "item", src |-> a, flag |-> ~flg]
       ELSE IF ready[b] = "error" THEN [out |-> "error", src |-> b, flag |-> ~flg]
       ELSE IF ready[b] \in ActionKinds
            THEN [out |-> "item", src |-> b, flag |-> IF a_done THEN ~flg ELSE flg]
       ELSE IF ready[b] = "ended" /\ a_done THEN [out |-> "end", src |-> b, flag |-> ~flg]
       ELSE [out |-> "notready", src |-> b, flag |-> ~flg]

\* a filter that lets every action through
filter_everything(action) == TRUE

\* filter closure: NoOp is dropped
filter_noop(action) == action # "NoOp"

\* the fold with update called on the placeholder left in bot
fold_placeholder(action, current) ==
    LET old_bot == BotNew
        r == update(action, old_bot)
    IN [input |-> old_bot, bot |-> r.bot, task |-> r.task]

\* fold over actions: bot is replaced by a placeholder, update is called
\* with the state taken out, and its new state is put back into bot
fold(action, current) ==
    LET old_bot == current
        r == update(action, old_bot)
    IN [input |-> old_bot, bot |-> r.bot, task |-> r.task]

\* the task handling with ReplyAndSave handled like Reply
dispatch_never_saving(new_task, current) ==
    IF new_task.kind = "None" THEN [replies |-> <<>>, saves |-> <<>>]
    ELSE [replies |-> <<new_task.response>>, saves |-> <<>>]

\* the task handling with a save spawned for every task
dispatch_always_saving(new_task, current) ==
    IF new_task.kind = "None" THEN [replies |-> <<>>, saves |-> <<>>]
    ELSE [replies |-> <<new_task.response>>,
          saves |-> <<[snapshot |-> current, status |-> "pending", seen |-> 0]>>]

\* the handling of the task in filter_map and for_each: the replies made
\* and the save tasks spawned (with a clone of bot) for one task
dispatch(new_task, current) ==
    IF new_task.kind = "None" THEN [replies |-> <<>>, saves |-> <<>>]
    ELSE IF new_task.kind = "Reply" THEN [replies |-> <<new_task.response>>, saves |-> <<>>]
    ELSE [replies |-> <<new_task.response>>,
          saves |-> <<[snapshot |-> current, status |-> "pending", seen |-> 0]>>]

\* an or_else closure that swallows the error
or_else_recovering(err) == "Ok"

\* or_else closure: the error is logged and turned into Err(())
or_else(err) == "Err"

InitMain ==
    /\ src_ready = [s \in Sources |-> "none"]
    /\ flag = FALSE
    /\ init_bot \in {BotNew, BotLoaded}
    /\ bot = init_bot
    /\ loop_state = "running"
    /\ saves = <<>>
    /\ disk = IF init_bot = BotNew THEN NoFile ELSE init_bot
    /\ reply_log = <<>>
    /\ merged_log = <<>>
    /\ update_log = <<>>
    /\ bypassed = "none"
    /\ nsupplied = 0

\* the loop is not run
MainIdle ==
    /\ InitMain
    /\ init_bot = BotNew

\* a source has its next item ready: an action, an error or its end
SourceReady(s, item) ==
    /\ loop_state = "running"
    /\ src_ready[s] = "none"
    /\ nsupplied < MaxActions
    /\ nsupplied' = nsupplied + 1
    /\ src_ready' = [src_ready EXCEPT ![s] = item]
    /\ UNCHANGED <<flag, bot, loop_state, saves, disk, reply_log, merged_log, update_log,
                   bypassed, init_bot>>

\* the loop is polled while the merge has nothing to yield
IdlePoll ==
    /\ loop_state = "running"
    /\ select(flag, src_ready).out = "notready"
    /\ flag' = select(flag, src_ready).flag
    /\ UNCHANGED <<src_ready, bot, loop_state, saves, disk, reply_log, merged_log,
                   update_log, bypassed, nsupplied, init_bot>>

\* one iteration of for_each: the merge yields an item, an error or its
\* end; an action passes the NoOp filter, is folded into bot, its task is
\* handled and its response is replied to
FoldStep ==
    /\ loop_state = "running"
    /\ LET p == select(flag, src_ready) IN
         /\ p.out # "notready"
         /\ flag' = p.flag
         /\ IF p.out = "error"
            THEN /\ loop_state' = IF or_else(p.src) = "Err" THEN "terminated" ELSE "running"
                 /\ src_ready' = [src_ready EXCEPT ![p.src] = "none"]
                 /\ UNCHANGED <<bot, saves, reply_log, merged_log, update_log, bypassed>>
            ELSE IF p.out = "end"
            THEN /\ loop_state' = "finished"
                 /\ UNCHANGED <<src_ready, bot, saves, reply_log, merged_log, update_log,
                                bypassed>>
            ELSE LET action == src_ready[p.src] IN
                 /\ loop_state' = loop_state
                 /\ src_ready' = [src_ready EXCEPT ![p.src] = "none"]
                 /\ merged_log' = Append(merged_log, [src |-> p.src, action |-> action])
                 /\ bypassed' = IF src_ready[Other(p.src)] \in ActionKinds
                                THEN Other(p.src) ELSE "none"
                 /\ IF ~filter_noop(action)
                    THEN UNCHANGED <<bot, saves, reply_log, update_log>>
                    ELSE LET f == fold(action, bot)
                             d == dispatch(f.task, f.bot)
                         IN /\ bot' = f.bot
                            /\ saves' = saves \o d.saves
                            /\ reply_log' = reply_log \o d.replies
                            /\ update_log' = Append(update_log,
                                  [action |-> action, input |-> f.input, output |-> f.bot,
                                   task |-> f.task, nreplies |-> Len(d.replies),
                                   nsaves |-> Len(d.saves)])
    /\ UNCHANGED <<disk, nsupplied, init_bot>>

\* a save task that writes the state the loop holds when the task runs
SaveRunLiveState(k, ok) ==
    /\ loop_state = "running"
    /\ k \in 1..Len(saves)
    /\ saves[k].status = "pending"
    /\ saves' = [saves EXCEPT ![k].status = IF ok THEN "saved" ELSE "failed",
                               ![k].seen = Len(reply_log)]
    /\ disk' = IF ok THEN bot ELSE disk
    /\ UNCHANGED <<src_ready, flag, bot, loop_state, reply_log, merged_log, update_log,
                   bypassed, nsupplied, init_bot>>

\* a save task whose failure ends the loop
SaveRunFatal(k, ok) ==
    /\ loop_state = "running"
    /\ k \in 1..Len(saves)
    /\ saves[k].status = "pending"
    /\ saves' = [saves EXCEPT ![k].status = IF ok THEN "saved" ELSE "failed",
                               ![k].seen = Len(reply_log)]
    /\ disk' = IF ok THEN saves[k].snapshot ELSE disk
    /\ loop_state' = IF ok THEN loop_state ELSE "terminated"
    /\ UNCHANGED <<src_ready, flag, bot, reply_log, merged_log, update_log,
                   bypassed, nsupplied, init_bot>>

\* a spawned save task runs: bot_clone.save("state.json"); an error is
\* logged; seen records how many replies had been made when it ran
SaveRun(k, ok) ==
    /\ loop_state = "running"
    /\ k \in 1..Len(saves)
    /\ saves[k].status = "pending"
    /\ saves' = [saves EXCEPT ![k].status = IF ok THEN "saved" ELSE "failed",
                               ![k].seen = Len(reply_log)]
    /\ disk' = IF ok THEN saves[k].snapshot ELSE disk
    /\ UNCHANGED <<src_ready, flag, bot, loop_state, reply_log, merged_log, update_log,
                   bypassed, nsupplied, init_bot>>

NextMain ==
    \/ \E s \in Sources : \E item \in ActionKinds \cup {"error", "ended"} :
          SourceReady(s, item)
    \/ IdlePoll
    \/ FoldStep
    \/ \E k \in 1..MaxActions : \E ok \in BOOLEAN : SaveRun(k, ok)

\* the loop runs; the client and the server of the library are not used
InitLoop == ClientIdle /\ InitServer /\ InitMain /\ BootIdle

SpecMain == InitLoop /\ [][NextMain /\ UNCHANGED <<clientVars, serverVars, bootVars>>]_vars

\* core.run keeps polling the loop while the merge has something to yield
FairMain == WF_mainVars(FoldStep)

\* the merge and the fold alone: the spawned save tasks are left pending
NextMerge ==
    \/ \E s \in Sources : \E item \in ActionKinds \cup {"error", "ended"} :
          SourceReady(s, item)
    \/ IdlePoll
    \/ FoldStep

SpecMerge ==
    InitLoop /\ [][NextMerge /\ UNCHANGED <<clientVars, serverVars, bootVars>>]_vars /\ FairMain

\* Client::new is called and the clients it yields are used
InitBootstrap == ClientIdle /\ InitServer /\ MainIdle /\ InitBoot

SpecBootstrap ==
    InitBootstrap /\ [][NextBoot /\ UNCHANGED <<clientVars, serverVars, mainVars>>]_vars

\* the client registers the webhook; the server has not been started
InitRegistering == InitClient /\ InitServer /\ MainIdle /\ BootIdle

SpecClient ==
    InitRegistering /\ [][NextClient /\ UNCHANGED <<serverVars, mainVars, bootVars>>]_vars

\* the server runs; no register_webhook call is made
InitServing == ClientIdle /\ InitServer /\ MainIdle /\ BootIdle

SpecServer == InitServing /\ [][NextServer /\ UNCHANGED <<mainVars, bootVars>>]_vars

\* the POST the platform sends for an event
BurstRequest ==
    [uri |-> [path |-> "/", query |-> ""], method |-> "POST",
     content_type |-> [present |-> TRUE, value |-> ApplicationJson]]

\* the consuming side of the pipeline: spawned tasks and the polled stream
BurstProgress ==
    \/ \E r \in 1..MaxRequests : TaskDecode(r)
    \/ \E r \in 1..MaxRequests : TaskUnparked(r)
    \/ ReceiveEnvelope
    \/ \E response \in MessageAnswers(hyd.id, hyd.personId) : GetMessageRespond(response)

\* a burst of POSTs whose stream is consumed and never dropped
NextBurst ==
    \/ \E body \in Bodies(nreq + 1) : HandleRequest(BurstRequest, body)
    \/ BurstProgress

\* the executor runs the spawned tasks, the consumer keeps polling the
\* stream and the platform answers every get_message: whatever of these can
\* run eventually does
FairBurst == WF_serverVars(BurstProgress)

SpecBurst == InitServing /\ [][NextBurst /\ UNCHANGED <<mainVars, bootVars>>]_vars /\ FairBurst

\* ------------------------------------------------------------------------
\* Properties of the client
\* ------------------------------------------------------------------------
\* C1: whenever register_webhook(url) has completed successfully and no
\* other party changed the webhooks during the call, the platform holds
\* exactly one webhook with resource messages and event created, and its
\* target is url.
C1_ExactlyOneAfterSuccess ==
    (reg_pc = "ok" /\ ~interfered) =>
        \E w \in webhooks : Matching(webhooks) = {w} /\ w.target_url = reg_url

\* C2: if a delete issued by register_webhook was answered with a failure
\* other than already-gone, the call has returned an error, it has issued
\* no add, and the matching webhooks are a subset of those before the call.
C2_DeleteFailureAbortsAdd ==
    del_failed =>
        /\ reg_pc = "err"
        /\ \A i \in 1..Len(reg_log) : reg_log[i].op # "add"
        /\ Matching(webhooks) \subseteq Matching(reg_before)

\* C3: every non-success HTTP response to get_json, post_json or delete
\* makes the helper return an error that carries the status.
C3_NonSuccessIsError ==
    (last_call.kind = "http" /\ ~IsSuccess(last_call.status)) =>
        (~last_call.result.ok /\ last_call.result.status = last_call.status)

\* C4: delete_webhook(id) of an id the platform does not hold, answered
\* not-found or no-content, returns success and leaves the webhooks
\* unchanged; every other delete failure is returned as a DeleteWebhook
\* error.
C4_DeleteOutcomes ==
    [][(\E id \in 1..(MaxInitial + MaxCalls) :
           Request("delete", id) \in inflight /\ Request("delete", id) \notin inflight') =>
         /\ ((~\E w \in webhooks : w.id = last_call'.id) /\ last_call'.status \in {204, 404})
               => (last_call'.outcome.ok /\ webhooks' = webhooks)
         /\ (last_call'.kind = "transport"
               \/ (~IsSuccess(last_call'.status) /\ last_call'.status # 404))
               => (~last_call'.outcome.ok /\ last_call'.outcome.kind = "DeleteWebhook")
      ]_vars

\* C5: the add is issued only after the list request and the delete of
\* every listed matching webhook have completed: while the add is in
\* flight nothing else of the call is, every listed matching webhook has had
\* its delete issued before the add, and at most one delete is in flight at
\* any time.
C5_AddAfterDeletes ==
    /\ Cardinality({q \in inflight : q.op = "delete"}) <= 1
    /\ \A i \in 1..Len(reg_log) :
         reg_log[i].op = "add" =>
           /\ i = Len(reg_log)
           /\ inflight \subseteq {Request("add", 0)}
           /\ \A id \in reg_listed : \E j \in 1..(i - 1) : reg_log[j] = Request("delete", id)

\* the add is in flight after two deletes of the call have completed
C5_Witness ==
    /\ Request("add", 0) \in inflight
    /\ Cardinality(reg_listed) >= 2
    /\ Len(reg_log) = 4

\* ------------------------------------------------------------------------
\* Properties of the server and of the hydration stage
\* ------------------------------------------------------------------------
\* message ids of a sequence of envelopes (WebhookMessage values)
PostIds(posts) == {posts[i].data.id : i \in 1..Len(posts)}

\* message ids of a sequence of embedded messages
DataIds(datas) == {datas[i].id : i \in 1..Len(datas)}

\* ids of the successful entries of a fetch log, in order
RECURSIVE FetchedOk(_)
FetchedOk(log) ==
    IF log = <<>> THEN <<>>
    ELSE IF Head(log).ok THEN <<Head(log).id>> \o FetchedOk(Tail(log))
    ELSE FetchedOk(Tail(log))

\* C6: an envelope whose sender id is the bot's own id never causes a
\* get_message call and never produces an item on the hydrated-message
\* stream, whatever other envelopes are processed around it.
C6_OwnMessagesNeverHydrated ==
    \A i \in 1..Len(received) :
        received[i].personId = "bot" =>
            /\ ~(hyd.pc = "fetch" /\ hyd.id = received[i].id)
            /\ \A j \in 1..Len(fetch_log) : fetch_log[j].id # received[i].id
            /\ \A j \in 1..Len(emitted) : emitted[j] # received[i].id

\* an own envelope was received between two others that were hydrated
C6_Witness ==
    /\ Len(received) = 3
    /\ received[2].personId = "bot"
    /\ Len(emitted) = 2

\* C7: a failed get_message drops exactly that message; the stream neither
\* ends nor errors, and every fetch that succeeds, before or after a failed
\* one, emits its message: the emitted ids are the successfully fetched
\* ids, in order.
C7_FailedFetchDropsOnlyThatMessage ==
    /\ stream_state \in {"open", "dropped"}
    /\ emitted = FetchedOk(fetch_log)

\* a fetch failed and a later one succeeded and was emitted
C7_Witness ==
    /\ stream_state = "open"
    /\ Len(fetch_log) = 2
    /\ ~fetch_log[1].ok
    /\ fetch_log[2].ok
    /\ emitted = <<fetch_log[2].id>>

\* C8: a task whose body fails to decode puts nothing into the channel and
\* leaves the channel and the stream as they are; a task whose body decodes
\* while the receiver is alive appends its envelope to the channel, also
\* after other tasks failed to decode; no envelope of a failed task is ever
\* in the channel or received.
C8_DecodeFailureIsIsolated ==
    /\ [](\A r \in 1..MaxRequests :
            task[r].pc = "decode_err" =>
                r \notin (PostIds(queue) \cup DataIds(received)))
    /\ [][\A r \in 1..MaxRequests :
            (task[r].pc = "decode" /\ task'[r].pc # "decode") =>
                IF task'[r].pc = "decode_err"
                THEN /\ queue' = queue
                     /\ parked' = parked
                     /\ rx_open' = rx_open
                     /\ stream_state' = stream_state
                ELSE rx_open =>
                        /\ Len(queue') = Len(queue) + 1
                        /\ queue'[Len(queue')].data.id = r
                        /\ rx_open'
         ]_vars

\* the first request failed to decode and the envelope of a later request
\* was received by the stream
C8_Witness ==
    /\ task[1].pc = "decode_err"
    /\ \E i \in 1..Len(received) : received[i].id > 1
    /\ rx_open

\* Content-Type values of the model that start with application/json
JsonContentTypes ==
    { [present |-> TRUE, value |-> ApplicationJson],
      [present |-> TRUE, value |-> ApplicationJson \o <<";", "c">>] }

\* requests rejected by the server never have a task or a message
RejectedLeaveNoTrace ==
    \A r \in 1..MaxRequests :
        replies[r].status \in {404, 405, 415} =>
            /\ task[r].pc = "none"
            /\ r \notin (PostIds(queue) \cup DataIds(received))

\* C9 as stated: path not "/" gives 404; otherwise method not POST gives
\* 405; otherwise Content-Type absent or not starting with application/json
\* gives 415; otherwise the request is accepted; a rejected request spawns
\* no task and puts no message into the stream.
C9_PriorityByPath ==
    /\ nreq > 0 =>
         replies[nreq].status =
            IF last_req.uri.path # "/" THEN 404
            ELSE IF last_req.method # "POST" THEN 405
            ELSE IF last_req.content_type \notin JsonContentTypes THEN 415
            ELSE 200
    /\ RejectedLeaveNoTrace

\* C9 amended: a request target other than exactly "/" (another path, or
\* the root path with a non-empty query) gives 404; otherwise method not
\* POST gives 405; otherwise Content-Type absent or not starting with
\* application/json gives 415; otherwise the request is accepted; a
\* rejected request spawns no task and puts no message into the stream.
C9_PriorityByTarget ==
    /\ nreq > 0 =>
         replies[nreq].status =
            IF last_req.uri # [path |-> "/", query |-> ""] THEN 404
            ELSE IF last_req.method # "POST" THEN 405
            ELSE IF last_req.content_type \notin JsonContentTypes THEN 415
            ELSE 200
    /\ RejectedLeaveNoTrace

\* a GET of the root path with a query, without Content-Type, was answered
\* 404 after an earlier request had been accepted
C9_Witness ==
    /\ nreq > 1
    /\ last_req.uri = [path |-> "/", query |-> "x"]
    /\ last_req.method = "GET"
    /\ ~last_req.content_type.present
    /\ replies[nreq].status = 404
    /\ task[nreq].pc = "none"
    /\ task[1].pc # "none"

\* C10: every request that passes validation has an empty 200 response
\* from the moment its task is spawned, whatever the task does afterwards:
\* a request with a task, in whatever state the task is, has the response.
C10_AcceptedAnswered200AtOnce ==
    /\ \A r \in 1..MaxRequests :
         task[r].pc # "none" => replies[r] = [status |-> 200, body |-> <<>>]
    /\ (/\ nreq > 0
        /\ last_req.uri = [path |-> "/", query |-> ""]
        /\ last_req.method = "POST"
        /\ last_req.content_type \in JsonContentTypes)
          => (task[nreq].pc # "none" /\ replies[nreq] = [status |-> 200, body |-> <<>>])

\* a request has its 200 while its task has not decoded yet, another after
\* its decode failed, a third after its send failed on the closed channel
C10_Witness ==
    \E a, b, c \in 1..MaxRequests :
        /\ task[a].pc = "decode" /\ replies[a].status = 200
        /\ task[b].pc = "decode_err" /\ replies[b].status = 200
        /\ task[c].pc = "send_err" /\ replies[c].status = 200

\* number of envelopes of message id in a sequence of records with field id
RECURSIVE CountId(_, _)
CountId(ids, id) ==
    IF ids = <<>> THEN 0
    ELSE (IF Head(ids) = id THEN 1 ELSE 0) + CountId(Tail(ids), id)

\* the message ids of the queued envelopes, in order
QueueIds == [i \in 1..Len(queue) |-> queue[i].data.id]

\* the message ids of the received envelopes, in order
ReceivedIds == [i \in 1..Len(received) |-> received[i].id]

\* C11 as stated: the number of envelopes buffered in the channel and not
\* yet received stays bounded by the capacity 1, however many concurrent
\* requests are in flight.
C11_QueueBoundedByBuffer == Len(queue) <= Buffer

\* C11 amended: every request sends through its own clone of the sender and
\* a sender is suspended only after its envelope is queued, so the number
\* of buffered envelopes is bounded by the buffer size plus the number of
\* suspended senders; a suspended sender's task completes only after the
\* receiver has taken an envelope (or was dropped), and the listener
\* accepts requests whatever the state of the channel.
C11_QueueBoundedBySenders ==
    /\ [](/\ Len(queue) <= Buffer + Len(parked)
          /\ \A i \in 1..Len(parked) : task[parked[i]].pc = "parked"
          /\ nreq < MaxRequests =>
               ENABLED HandleRequest([uri |-> [path |-> "/", query |-> ""],
                                      method |-> "POST",
                                      content_type |-> [present |-> TRUE,
                                                        value |-> ApplicationJson]],
                                     NoBody))
    /\ [][\A r \in 1..MaxRequests :
            (\E i \in 1..Len(parked) : parked[i] = r) =>
                /\ task'[r].pc = "parked"
                /\ (\A i \in 1..Len(parked') : parked'[i] # r) =>
                      (Len(received') = Len(received) + 1 \/ ~rx_open')
         ]_vars

\* two envelopes are buffered, their senders suspended, and a further
\* request has been accepted meanwhile
C11_Witness ==
    /\ Len(queue) = 3
    /\ Len(parked) = 2
    /\ rx_open

\* C12: no envelope is lost or duplicated: every envelope that decoded and
\* was sent is exactly once in the channel or among the received ones, and,
\* the tasks being run and the stream consumed, it is eventually received.
C12_NoMessageLost ==
    /\ [](\A r \in 1..MaxRequests :
            CountId(QueueIds, r) + CountId(ReceivedIds, r) =
                IF task[r].pc \in {"parked", "done"} THEN 1 ELSE 0)
    /\ \A r \in 1..MaxRequests :
            (task[r].pc \in {"parked", "done"}) ~> (CountId(ReceivedIds, r) = 1)

\* a burst of three was received, not in arrival order
C12_Witness ==
    /\ Len(received) = 3
    /\ received[1].id = 3
    /\ received[3].id = 1

\* ------------------------------------------------------------------------
\* Properties of the action loop
\* ------------------------------------------------------------------------
Folded(step) == Len(update_log') = Len(update_log) + 1 /\ update_log'[Len(update_log')].task.kind = step

WithTask == SelectSeq(update_log, LAMBDA e : e.task.kind # "None")

WithSave == SelectSeq(update_log, LAMBDA e : e.task.kind = "ReplyAndSave")

\* C13: when update returns ReplyAndSave(response), that step makes exactly
\* one reply with the response and spawns exactly one save task, which is
\* still pending when the reply has been made; there are as many save
\* tasks as ReplyAndSave tasks
C13_ReplyOnceSaveOnce ==
    /\ [](Len(saves) = Len(WithSave))
    /\ [][Folded("ReplyAndSave") =>
            /\ reply_log' = Append(reply_log, update_log'[Len(update_log')].task.response)
            /\ Len(saves') = Len(saves) + 1
            /\ \A k \in 1..Len(saves) : saves'[k] = saves[k]
            /\ saves'[Len(saves')].status = "pending"]_vars

C13_Witness ==
    /\ Len(update_log) = 1
    /\ update_log[1].task.kind = "ReplyAndSave"
    /\ reply_log = <<update_log[1].task.response>>
    /\ Len(saves) = 1
    /\ saves[1].status = "pending"

\* C14: a folded action for which update returns no task makes no reply and
\* spawns no save; one for which it returns Reply(response) makes exactly one
\* reply with the response and spawns no save; the number of replies equals
\* the number of tasks produced
C14_RepliesMatchTasks ==
    /\ [](/\ Len(reply_log) = Len(WithTask)
          /\ \A i \in 1..Len(reply_log) : reply_log[i] = WithTask[i].task.response)
    /\ [][/\ Folded("None") => reply_log' = reply_log /\ saves' = saves
          /\ Folded("Reply") =>
                /\ reply_log' = Append(reply_log, update_log'[Len(update_log')].task.response)
                /\ saves' = saves]_vars

C14_Witness ==
    /\ Len(update_log) = 3
    /\ update_log[1].task.kind = "None"
    /\ update_log[2].task.kind = "Reply"
    /\ update_log[3].task.kind = "None"
    /\ reply_log = <<update_log[2].task.response>>
    /\ saves = <<>>

\* C15: a save task that fails changes nothing of the loop: the bot state,
\* the replies made, the merge and the running loop stay as they are, the
\* loop can take its next step exactly as before, and the reply of the
\* action that spawned the save has been made
C15_FailedSaveHasNoEffect ==
    /\ [](\A k \in 1..Len(saves) :
            \E j \in 1..Len(reply_log) : reply_log[j] = WithSave[k].task.response)
    /\ [][(\E k \in 1..Len(saves) : saves[k].status = "pending" /\ saves'[k].status = "failed") =>
            /\ UNCHANGED <<bot, loop_state, reply_log, update_log, merged_log, src_ready, flag>>
            /\ loop_state' = "running"
            /\ Len(saves') = Len(saves)]_vars

C15_Witness ==
    /\ Len(saves) >= 1
    /\ saves[1].status = "failed"
    /\ Len(reply_log) > saves[1].seen
    /\ loop_state = "running"

\* C16: when the merge yields an error of either source the loop
\* terminates in that step without an update, a reply or a save, and once
\* terminated nothing changes any more
C16_StreamErrorTerminates ==
    /\ [][(\E s \in Sources : src_ready[s] = "error" /\ src_ready'[s] # "error") =>
            /\ loop_state' = "terminated"
            /\ UNCHANGED <<bot, reply_log, saves, update_log, merged_log, disk>>]_vars
    /\ [][loop_state = "terminated" => UNCHANGED mainVars]_vars
    /\ [](loop_state = "terminated" =>
            /\ ~ENABLED FoldStep
            /\ ~ENABLED IdlePoll
            /\ \A k \in 1..MaxActions : \A ok \in BOOLEAN : ~ENABLED SaveRun(k, ok))

C16_Witness ==
    /\ loop_state = "terminated"
    /\ Len(update_log) = 1
    /\ \E s \in Sources : src_ready[s] \in ActionKinds \ {"NoOp"}
    /\ \E k \in 1..Len(saves) : saves[k].status = "pending"

RECURSIVE NotNoOp(_)
NotNoOp(log) == IF log = <<>> THEN <<>> ELSE (IF Head(log).action = "NoOp" THEN <<>> ELSE <<Head(log).action>>) \o NotNoOp(Tail(log))

\* C17: the actions passed to update are exactly the non-NoOp actions the
\* merge emitted, in order and once each; a step that emits a NoOp changes
\* no bot state, makes no reply and spawns no save
C17_NoOpNeverFolded ==
    /\ []([i \in 1..Len(update_log) |-> update_log[i].action] = NotNoOp(merged_log))
    /\ [][(Len(merged_log') = Len(merged_log) + 1 /\ merged_log'[Len(merged_log')].action = "NoOp") =>
            UNCHANGED <<bot, reply_log, saves, update_log, disk>>]_vars

C17_Witness ==
    /\ Len(merged_log) = 3
    /\ merged_log[1].action = "NoOp" /\ merged_log[1].src = "spark"
    /\ merged_log[2].action = "save"
    /\ merged_log[3].action = "NoOp" /\ merged_log[3].src = "gerrit"
    /\ Len(update_log) = 1

\* C18: callers hold a client only if the self-lookup succeeded, every
\* client they hold (the result of Client::new and every clone) carries the
\* id the lookup returned, which is the id the platform gave and not the
\* empty placeholder; a failed lookup leaves the error and no client; no
\* operation changes a client that is held
C18_IdResolvedOnceThenFrozen ==
    /\ [](/\ clients # <<>> => new_pc = "ok" /\ lookup.ok /\ lookup.value = me
          /\ \A i \in 1..Len(clients) :
                Client_id(clients[i]) = lookup.value /\ Client_id(clients[i]) # EmptyId
          /\ (new_pc \in {"ok", "err"} /\ ~lookup.ok) => new_pc = "err" /\ clients = <<>>
          /\ new_pc = "ok" => clients # <<>>
          /\ \A j \in 1..Len(op_log) : op_log[j].bot_id = me)
    /\ [][\A i \in 1..Len(clients) : clients'[i] = clients[i]]_vars

C18_Witness ==
    /\ new_pc = "ok"
    /\ me = "alice"
    /\ Len(clients) = 2
    /\ Len(op_log) = 3
    /\ op_log[1].op = "clone"
    /\ op_log[2].op = "reply" /\ op_log[2].client = 2
    /\ op_log[3].op = "id" /\ op_log[3].client = 1 /\ op_log[3].bot_id = "alice"

\* a failed self-lookup: Client::new resolved to the error
C18_WitnessFailed == new_pc = "err" /\ lookup.kind = "JsonError" /\ clients = <<>>

RECURSIVE FoldAll(_, _)
FoldAll(actions, state) == IF actions = <<>> THEN state ELSE FoldAll(Tail(actions), update(Head(actions), state).bot)

\* C19: every update receives the state the previous update returned (the
\* initial state for the first), the current state is update applied
\* successively to the folded actions from the initial state, and every
\* save task holds the state returned by the update that spawned it
C19_StateThreadedLinearly ==
    /\ bot = FoldAll([i \in 1..Len(update_log) |-> update_log[i].action], init_bot)
    /\ \A i \in 1..Len(update_log) :
          /\ update_log[i].input = IF i = 1 THEN init_bot ELSE update_log[i - 1].output
          /\ update_log[i].output = update(update_log[i].action, update_log[i].input).bot
    /\ bot = IF update_log = <<>> THEN init_bot ELSE update_log[Len(update_log)].output
    /\ \A k \in 1..Len(saves) : k <= Len(WithSave) /\ saves[k].snapshot = WithSave[k].output
    /\ disk \in {IF init_bot = BotNew THEN NoFile ELSE init_bot} \cup
                {WithSave[k].output : k \in 1..Len(WithSave)}

C19_Witness ==
    /\ Len(update_log) = 3
    /\ init_bot = BotLoaded
    /\ \A i \in 1..3 : update_log[i].input # BotNew
    /\ \E k \in 1..Len(saves) : saves[k].status = "saved" /\ disk = saves[k].snapshot /\ disk # bot

\* C20: an action of one source that is ready while the merge emits an
\* action of the other source is the next action the merge emits, and a
\* ready action is eventually emitted unless the loop ends
C20_MergeIsFair ==
    /\ [][(Len(merged_log') = Len(merged_log) + 1 /\ bypassed \in Sources) =>
            merged_log'[Len(merged_log')].src = bypassed]_vars
    /\ \A s \in Sources :
          (src_ready[s] \in ActionKinds) ~> (src_ready[s] = "none" \/ loop_state # "running")

C20_Witness ==
    /\ Len(merged_log) = 2
    /\ merged_log[1].src = "spark"
    /\ merged_log[2].src = "gerrit"
    /\ bypassed = "spark"

\* C21: the snapshot a save task holds is the state returned by the update
\* that produced its ReplyAndSave task, later fold steps leave it as it is,
\* and a save task that succeeds writes that state whatever the loop has
\* folded since
C21_SnapshotIsStateOfItsUpdate ==
    /\ [](\A k \in 1..Len(saves) :
            saves[k].snapshot = update(WithSave[k].action, WithSave[k].input).bot)
    /\ [][/\ \A k \in 1..Len(saves) : saves'[k].snapshot = saves[k].snapshot
          /\ Folded("ReplyAndSave") => saves'[Len(saves')].snapshot = bot'
          /\ \A k \in 1..Len(saves) :
                (saves[k].status = "pending" /\ saves'[k].status = "saved") =>
                    disk' = WithSave[k].output]_vars

\* a save spawned by the first action runs after a second action was
\* folded and writes the state of the first
C21_Witness ==
    /\ Len(update_log) = 2
    /\ update_log[1].task.kind = "ReplyAndSave"
    /\ update_log[2].task.kind = "Reply"
    /\ saves[1].status = "saved"
    /\ saves[1].seen = 2
    /\ disk = update_log[1].output
    /\ disk # bot

\* the embedded messages received that the filter lets through
Fetchable == SelectSeq(received, LAMBDA d : d.personId # own_id)

FetchedIds == [i \in 1..Len(fetch_log) |-> fetch_log[i].id]

HydratedIds ==
    LET hydrated == SelectSeq(fetch_log, LAMBDA f : f.ok)
    IN [i \in 1..Len(hydrated) |-> hydrated[i].id]

\* C22: at most one get_message call is in flight, the fetches complete in
\* the order their envelopes were received, an envelope is taken from the
\* channel only when no fetch is in flight, and the messages emitted are
\* the successfully fetched ones in the order of their envelopes
C22_HydrationOneAtATime ==
    /\ [](/\ Len(Fetchable) - Len(fetch_log) \in {0, 1}
          /\ stream_state = "open" =>
                (Len(Fetchable) - Len(fetch_log) = 1 <=> hyd.pc = "fetch")
          /\ hyd.pc = "fetch" => hyd.id = Fetchable[Len(Fetchable)].id
          /\ FetchedIds = [i \in 1..Len(fetch_log) |-> Fetchable[i].id]
          /\ emitted = HydratedIds)
    /\ [][Len(received') = Len(received) + 1 =>
            /\ hyd.pc = "idle"
            /\ Len(fetch_log) = Len(Fetchable)]_vars

C22_Witness ==
    /\ Len(received) = 3
    /\ received[1].id = 2
    /\ Len(fetch_log) = 3
    /\ ~fetch_log[2].ok
    /\ emitted = <<received[1].id, received[3].id>>

\* a webhook the filter of register_webhook does not let through
NotMessagesCreated(w) == w.resource # "messages" \/ w.event # "created"

\* the webhook of the platform with the given id, before the call
Before(id) == {w \in reg_before : w.id = id}

\* C23: every delete register_webhook issues is for a webhook that was
\* messages/created before the call; a webhook that is not disappears from
\* the platform only through another party; and when the list request
\* fails the call ends with nothing but the list issued and the platform's
\* webhooks as they were
C23_OnlyMatchingDeleted ==
    /\ [](/\ \A i \in 1..Len(reg_log) :
                reg_log[i].op = "delete" =>
                    /\ Before(reg_log[i].id) # {}
                    /\ \A w \in Before(reg_log[i].id) : ~NotMessagesCreated(w)
          /\ ~interfered => {w \in reg_before : NotMessagesCreated(w)} \subseteq webhooks
          /\ (reg_pc = "err" /\ last_call.op = "get_json") =>
                /\ reg_log = <<Request("list", 0)>>
                /\ inflight = {}
                /\ ~interfered => webhooks = reg_before)
    /\ [][\A w \in webhooks :
            (NotMessagesCreated(w) /\ w \notin webhooks') => ninterf' = ninterf + 1]_vars

\* the call succeeded, deleted a messages/created webhook and left a
\* messages webhook of another event in place
C23_Witness ==
    /\ reg_pc = "ok"
    /\ ~interfered
    /\ \E w \in reg_before \cap webhooks : w.resource = "messages" /\ w.event # "created"
    /\ \E w \in reg_before \ webhooks : ~NotMessagesCreated(w)

\* the list request failed with webhooks on the platform
C23_WitnessListFailed ==
    /\ reg_pc = "err"
    /\ last_call.op = "get_json"
    /\ Cardinality(webhooks) = 2
    /\ webhooks = reg_before

====
